---- MODULE Spec2Model ----
(***************************************************************************)
(* Runtime target detection of cargo-binstall (src/target.rs).             *)
(*                                                                         *)
(* One call of detect_targets is modelled as a state machine whose steps   *)
(* are the stretches of code between two suspension points (the awaits on  *)
(* the two external processes).  Text is modelled character by character   *)
(* with TLA+ strings; byte buffers are strings too, in which the character *)
(* XFF stands for a byte that is not valid UTF-8 and FFFD for the          *)
(* replacement character U+FFFD.                                           *)
(***************************************************************************)
EXTENDS Integers, Sequences, FiniteSets, TLC

VARIABLES
    host_os,      \* cfg(target_os) of the build: "linux", "macos" or "other"
    TARGET,       \* env!("TARGET"), the compile-time triple
    pc,           \* position of the call
    rustc_out,    \* outcome of `rustc -vV`
    probe,        \* value of get_target_from_rustc()
    ldd_out,      \* outcome of `ldd --version`
    stdout_libc,  \* parse_libc_version_from_ldd_output(&stdout)
    stderr_libc,  \* parse_libc_version_from_ldd_output(&stderr)
    guess,        \* value of guess_host_triple()
    ret,          \* the returned Vec<Box<str>>
    spawned,      \* the external commands invoked so far, in order
    running       \* the external commands awaited right now

vars == <<host_os, TARGET, pc, rustc_out, probe, ldd_out, stdout_libc,
          stderr_libc, guess, ret, spawned, running>>

-----------------------------------------------------------------------------
(* Bounds and input samples *)

\* Largest number of lines in the stdout of rustc.
MaxLines == 2

\* Option<T>
None == [some |-> FALSE]
Some(v) == [some |-> TRUE, val |-> v]

\* Something not computed yet (a process not finished, a function not called).
Pending == [state |-> "pending"]

\* io::Result<Output> of Command::output()
LaunchFailed == [state |-> "launch_failed"]
Exited(ok, out, err) ==
    [state |-> "exited", success |-> ok, stdout |-> out, stderr |-> err]

\* A byte that is invalid in UTF-8, and the character U+FFFD that a lossy
\* decoding puts in its place.
XFF == "#"
FFFD == "?"

\* (cfg(target_os), env!("TARGET")) of the builds considered.
Builds ==
    { <<"linux", "x86_64-unknown-linux-gnu">>,
      <<"linux", "armv7-unknown-linux-gnueabihf">>,
      <<"linux", "x86_64-unknown-linux-musl">>,
      <<"linux", "armv7-unknown-linux-uclibceabihf">>,
      <<"macos", "aarch64-apple-darwin">>,
      <<"macos", "x86_64-apple-darwin">>,
      <<"other", "x86_64-pc-windows-msvc">>,
      <<"other", "x86_64-unknown-freebsd">> }

\* Lines rustc may print.
RustcLineTexts ==
    { "binary: rustc",
      "host: x86_64-unknown-linux-gnu",
      "host: armv7-unknown-linux-gnueabihf",
      "host: aarch64-apple-darwin",
      "host: " \o XFF }

RECURSIVE Join(_, _, _)
Join(ls, eol, fin) ==
    IF ls = <<>> THEN ""
    ELSE IF Len(ls) = 1 THEN Head(ls) \o (IF fin THEN eol ELSE "")
    ELSE Head(ls) \o eol \o Join(Tail(ls), eol, fin)

\* The stdout buffers of rustc: up to MaxLines lines, LF or CRLF, the last
\* line terminated or not.
RustcStdouts ==
    UNION { { Join(ls, eol, fin) :
                ls \in [1..k -> RustcLineTexts], eol \in {"\n", "\r\n"},
                fin \in BOOLEAN } : k \in 0..MaxLines }

RustcOutcomes ==
    {LaunchFailed} \cup
    { Exited(ok, out, "") : ok \in BOOLEAN, out \in RustcStdouts }

\* The stdout and stderr buffers of ldd.
LddBuffers ==
    { "",
      "musl libc (x86_64)\nVersion 1.2.3\n",
      "ldd (Ubuntu GLIBC 2.35) 2.35\r\n",
      "ldd (GNU libc) 2.17" \o XFF \o "\n",
      "GLIBC 2.35\nmusl libc\n" }

LddOutcomes ==
    {LaunchFailed} \cup
    { Exited(ok, out, err) :
        ok \in BOOLEAN, out \in LddBuffers, err \in LddBuffers }

\* The values guess_host_triple() may return.
Guesses ==
    { None, Some("aarch64-apple-darwin"), Some("x86_64-apple-darwin"),
      Some("x86_64-unknown-linux-gnu") }

-----------------------------------------------------------------------------
(* Text *)

Min(S) == CHOOSE i \in S : \A j \in S : i <= j
Max(S) == CHOOSE i \in S : \A j \in S : j <= i

\* The positions at which pat occurs in s.
Occurrences(s, pat) ==
    { i \in 1..(Len(s) - Len(pat) + 1) : SubSeq(s, i, i + Len(pat) - 1) = pat }

\* str::contains
contains(s, pat) == Occurrences(s, pat) # {}

\* str::find, 0 standing for no match
find(s, pat) == IF contains(s, pat) THEN Min(Occurrences(s, pat)) ELSE 0

\* str::strip_prefix
strip_prefix(s, prefix) ==
    IF Len(s) >= Len(prefix) /\ SubSeq(s, 1, Len(prefix)) = prefix
    THEN Some(SubSeq(s, Len(prefix) + 1, Len(s)))
    ELSE None

\* str::replace: every non-overlapping match, left to right
RECURSIVE replace(_, _, _)
replace(s, from, to) ==
    LET i == find(s, from) IN
    IF i = 0 THEN s
    ELSE SubSeq(s, 1, i - 1) \o to
         \o replace(SubSeq(s, i + Len(from), Len(s)), from, to)

\* str::rsplit_once: the text before and after the last delim
rsplit_once(s, delim) ==
    IF contains(s, delim)
    THEN LET i == Max(Occurrences(s, delim)) IN
         Some(<<SubSeq(s, 1, i - 1), SubSeq(s, i + Len(delim), Len(s))>>)
    ELSE None

\* String::from_utf8_lossy: every invalid byte becomes U+FFFD
from_utf8_lossy(bytes) == replace(bytes, XFF, FFFD)

\* BufRead::lines over a Cursor: io::Result<String> per line.  A line ends
\* at LF; the LF, and a CR right before it, are dropped; a line that is not
\* valid UTF-8 is an error and reading goes on after it.
RECURSIVE lines(_)
lines(buf) ==
    IF buf = "" THEN <<>>
    ELSE LET nl == find(buf, "\n")
             raw == IF nl = 0 THEN buf ELSE SubSeq(buf, 1, nl)
             rest == IF nl = 0 THEN "" ELSE SubSeq(buf, nl + 1, Len(buf))
             noLf == IF nl = 0 THEN raw ELSE SubSeq(raw, 1, Len(raw) - 1)
             text == IF nl # 0 /\ Len(noLf) > 0
                        /\ SubSeq(noLf, Len(noLf), Len(noLf)) = "\r"
                     THEN SubSeq(noLf, 1, Len(noLf) - 1)
                     ELSE noLf
             item == IF contains(raw, XFF)
                     THEN [ok |-> FALSE]
                     ELSE [ok |-> TRUE, val |-> text]
         IN <<item>> \o lines(rest)

-----------------------------------------------------------------------------
(* The functions of target.rs *)

AARCH64 == "aarch64-apple-darwin"
X86 == "x86_64-apple-darwin"

\* Faulty variant: the last line that begins with "host: " instead of the
\* first.
get_target_from_rustc_last(out) ==
    IF out.state # "exited" THEN None
    ELSE IF ~out.success THEN None
    ELSE LET ls == lines(out.stdout)
             hits == { i \in 1..Len(ls) :
                         ls[i].ok /\ strip_prefix(ls[i].val, "host: ").some }
         IN IF hits = {} THEN None
            ELSE Some(strip_prefix(ls[Max(hits)].val, "host: ").val)

\* Faulty variant: the exit status of rustc is not looked at.
get_target_from_rustc_any_status(out) ==
    IF out.state # "exited" THEN None
    ELSE LET ls == lines(out.stdout)
             hits == { i \in 1..Len(ls) :
                         ls[i].ok /\ strip_prefix(ls[i].val, "host: ").some }
         IN IF hits = {} THEN None
            ELSE Some(strip_prefix(ls[Min(hits)].val, "host: ").val)

\* get_target_from_rustc, given the outcome of the rustc process
get_target_from_rustc(out) ==
    IF out.state # "exited" THEN None
    ELSE IF ~out.success THEN None
    ELSE LET ls == lines(out.stdout)
             hits == { i \in 1..Len(ls) :
                         ls[i].ok /\ strip_prefix(ls[i].val, "host: ").some }
         IN IF hits = {} THEN None
            ELSE Some(strip_prefix(ls[Min(hits)].val, "host: ").val)

\* Faulty variant: the glibc marker is looked for at the end of the triple
\* only.
probed_targets_suffix(os, target) ==
    LET v == <<target>> IN
    IF os = "linux" /\ Len(v[1]) >= 3
       /\ SubSeq(v[1], Len(v[1]) - 2, Len(v[1])) = "gnu"
    THEN Append(v, replace(v[1], "gnu", "musl"))
    ELSE IF os = "macos" /\ v[1] = AARCH64
    THEN Append(v, X86)
    ELSE v

\* detect_targets, the branch of a probe that yielded target
probed_targets(os, target) ==
    LET v == <<target>> IN
    IF os = "linux" /\ contains(v[1], "gnu")
    THEN Append(v, replace(v[1], "gnu", "musl"))
    ELSE IF os = "macos" /\ v[1] = AARCH64
    THEN Append(v, X86)
    ELSE v

\* Faulty variant: the glibc marker is looked for first.
parse_libc_version_from_ldd_output_glibc_first(output) ==
    LET s == from_utf8_lossy(output) IN
    IF contains(s, "GLIBC") THEN Some("gnu")
    ELSE IF contains(s, "musl libc") THEN Some("musl")
    ELSE None

parse_libc_version_from_ldd_output(output) ==
    LET s == from_utf8_lossy(output) IN
    IF contains(s, "musl libc") THEN Some("musl")
    ELSE IF contains(s, "GLIBC") THEN Some("gnu")
    ELSE None

\* parse_abi: the residual qualifier, or a panic
Panic == [panic |-> TRUE]
Returns(v) == [panic |-> FALSE, val |-> v]

\* Faulty variant: a suffix that begins with "musl" is not recognized.
parse_abi_gnu_only(target) ==
    LET split == rsplit_once(target, "-") IN
    IF ~split.some THEN Panic
    ELSE LET last == split.val[2] IN
         IF strip_prefix(last, "gnu").some
         THEN Returns(strip_prefix(last, "gnu").val)
         ELSE Panic

\* Faulty variant: an unrecognized suffix is passed on instead of a panic.
parse_abi_lenient(target) ==
    LET split == rsplit_once(target, "-") IN
    IF ~split.some THEN Panic
    ELSE LET last == split.val[2] IN
         IF strip_prefix(last, "musl").some
         THEN Returns(strip_prefix(last, "musl").val)
         ELSE IF strip_prefix(last, "gnu").some
         THEN Returns(strip_prefix(last, "gnu").val)
         ELSE Returns(last)

parse_abi(target) ==
    LET split == rsplit_once(target, "-") IN
    IF ~split.some THEN Panic
    ELSE LET last == split.val[2] IN
         IF strip_prefix(last, "musl").some
         THEN Returns(strip_prefix(last, "musl").val)
         ELSE IF strip_prefix(last, "gnu").some
         THEN Returns(strip_prefix(last, "gnu").val)
         ELSE Panic

\* Faulty variant: the libc family asked for is not used.
create_target_str_fixed_libc(target, libc_version, abi) ==
    LET prefix == rsplit_once(target, "-").val[1] IN
    prefix \o "-" \o "musl" \o abi

create_target_str(target, libc_version, abi) ==
    LET prefix == rsplit_once(target, "-").val[1] IN
    prefix \o "-" \o libc_version \o abi

\* Faulty variant: stderr is inspected before stdout.
detect_targets_linux_stderr_first(target, abi, out) ==
    IF out.state = "exited"
    THEN LET so == parse_libc_version_from_ldd_output(out.stdout)
             se == parse_libc_version_from_ldd_output(out.stderr)
         IN IF ~so.some /\ ~se.some
            THEN <<create_target_str(target, "musl", abi)>>
            ELSE LET libc_version == IF se.some THEN se.val ELSE so.val IN
                 IF libc_version = "gnu"
                 THEN <<create_target_str(target, "gnu", abi),
                        create_target_str(target, "musl", abi)>>
                 ELSE <<create_target_str(target, "musl", abi)>>
    ELSE <<create_target_str(target, "musl", abi)>>

\* detect_targets_linux from the completion of ldd on
detect_targets_linux(target, abi, out) ==
    IF out.state = "exited"
    THEN LET so == parse_libc_version_from_ldd_output(out.stdout)
             se == parse_libc_version_from_ldd_output(out.stderr)
         IN IF ~so.some /\ ~se.some
            THEN <<create_target_str(target, "musl", abi)>>
            ELSE LET libc_version == IF so.some THEN so.val ELSE se.val IN
                 IF libc_version = "gnu"
                 THEN <<create_target_str(target, "gnu", abi),
                        create_target_str(target, "musl", abi)>>
                 ELSE <<create_target_str(target, "musl", abi)>>
    ELSE <<create_target_str(target, "musl", abi)>>

\* Faulty variant: the x86_64 triple is put first.
detect_targets_macos_x86_first(g) ==
    IF g = Some(AARCH64) THEN <<X86, AARCH64>> ELSE <<X86>>

detect_targets_macos(g) ==
    IF g = Some(AARCH64) THEN <<AARCH64, X86>> ELSE <<X86>>

-----------------------------------------------------------------------------
(* The call *)

Init ==
    /\ \E b \in Builds : host_os = b[1] /\ TARGET = b[2]
    /\ pc = "start"
    /\ rustc_out = Pending
    /\ probe = Pending
    /\ ldd_out = Pending
    /\ stdout_libc = Pending
    /\ stderr_libc = Pending
    /\ guess = Pending
    /\ ret = None
    /\ spawned = <<>>
    /\ running = {}

\* Faulty variant: ldd is started together with rustc.
detect_targets_eager ==
    /\ pc = "start"
    /\ pc' = "await_rustc"
    /\ spawned' = spawned \o <<"rustc", "ldd">>
    /\ running' = running \cup {"rustc", "ldd"}
    /\ UNCHANGED <<host_os, TARGET, rustc_out, probe, ldd_out, stdout_libc,
                   stderr_libc, guess, ret>>

\* detect_targets is called: rustc -vV is started and awaited.
detect_targets ==
    /\ pc = "start"
    /\ pc' = "await_rustc"
    /\ spawned' = Append(spawned, "rustc")
    /\ running' = running \cup {"rustc"}
    /\ UNCHANGED <<host_os, TARGET, rustc_out, probe, ldd_out, stdout_libc,
                   stderr_libc, guess, ret>>

\* rustc is over and the probe yields a triple.
RustcDoneSome ==
    /\ pc = "await_rustc"
    /\ \E out \in RustcOutcomes :
        /\ get_target_from_rustc(out).some
        /\ rustc_out' = out
        /\ probe' = get_target_from_rustc(out)
        /\ ret' = Some(probed_targets(host_os, get_target_from_rustc(out).val))
    /\ pc' = "returned"
    /\ running' = running \ {"rustc"}
    /\ UNCHANGED <<host_os, TARGET, ldd_out, stdout_libc, stderr_libc, guess,
                   spawned>>

\* rustc is over without a triple, on a host that is neither Linux nor macOS.
RustcDoneNoneOther ==
    /\ pc = "await_rustc"
    /\ host_os = "other"
    /\ \E out \in RustcOutcomes :
        /\ ~get_target_from_rustc(out).some
        /\ rustc_out' = out
        /\ probe' = get_target_from_rustc(out)
    /\ ret' = Some(<<TARGET>>)
    /\ pc' = "returned"
    /\ running' = running \ {"rustc"}
    /\ UNCHANGED <<host_os, TARGET, ldd_out, stdout_libc, stderr_libc, guess,
                   spawned>>

\* rustc is over without a triple, on macOS.
RustcDoneNoneMacos ==
    /\ pc = "await_rustc"
    /\ host_os = "macos"
    /\ \E out \in RustcOutcomes :
        /\ ~get_target_from_rustc(out).some
        /\ rustc_out' = out
        /\ probe' = get_target_from_rustc(out)
    /\ \E g \in Guesses :
        /\ guess' = g
        /\ ret' = Some(detect_targets_macos(g))
    /\ pc' = "returned"
    /\ running' = running \ {"rustc"}
    /\ UNCHANGED <<host_os, TARGET, ldd_out, stdout_libc, stderr_libc,
                   spawned>>

\* rustc is over without a triple, on Linux, and parse_abi panics.
RustcDoneNoneLinuxPanic ==
    /\ pc = "await_rustc"
    /\ host_os = "linux"
    /\ \E out \in RustcOutcomes :
        /\ ~get_target_from_rustc(out).some
        /\ rustc_out' = out
        /\ probe' = get_target_from_rustc(out)
    /\ parse_abi(TARGET).panic
    /\ pc' = "panicked"
    /\ running' = running \ {"rustc"}
    /\ UNCHANGED <<host_os, TARGET, ldd_out, stdout_libc, stderr_libc, guess,
                   ret, spawned>>

\* rustc is over without a triple, on Linux: ldd --version is started and
\* awaited.
RustcDoneNoneLinux ==
    /\ pc = "await_rustc"
    /\ host_os = "linux"
    /\ \E out \in RustcOutcomes :
        /\ ~get_target_from_rustc(out).some
        /\ rustc_out' = out
        /\ probe' = get_target_from_rustc(out)
    /\ ~parse_abi(TARGET).panic
    /\ pc' = "await_ldd"
    /\ spawned' = Append(spawned, "ldd")
    /\ running' = (running \ {"rustc"}) \cup {"ldd"}
    /\ UNCHANGED <<host_os, TARGET, ldd_out, stdout_libc, stderr_libc, guess,
                   ret>>

\* ldd is over.
LddDone ==
    /\ pc = "await_ldd"
    /\ \E out \in LddOutcomes :
        /\ ldd_out' = out
        /\ stdout_libc' =
             IF out.state = "exited"
             THEN parse_libc_version_from_ldd_output(out.stdout)
             ELSE Pending
        /\ stderr_libc' =
             IF out.state = "exited"
                /\ ~parse_libc_version_from_ldd_output(out.stdout).some
             THEN parse_libc_version_from_ldd_output(out.stderr)
             ELSE Pending
        /\ ret' = Some(detect_targets_linux(TARGET, parse_abi(TARGET).val, out))
    /\ pc' = "returned"
    /\ running' = running \ {"ldd"}
    /\ UNCHANGED <<host_os, TARGET, rustc_out, probe, guess, spawned>>

Next ==
    \/ detect_targets
    \/ RustcDoneSome
    \/ RustcDoneNoneOther
    \/ RustcDoneNoneMacos
    \/ RustcDoneNoneLinuxPanic
    \/ RustcDoneNoneLinux
    \/ LddDone

Spec == Init /\ [][Next]_vars

-----------------------------------------------------------------------------
(* What the properties below are stated with.  None of it is used by the   *)
(* model above.                                                            *)

Returned == pc = "returned" /\ ret.some
RustcOver == rustc_out # Pending
RustcUnavailable ==
    \/ rustc_out = LaunchFailed
    \/ rustc_out.state = "exited" /\ ~rustc_out.success
LddExited == ldd_out # Pending /\ ldd_out.state = "exited"

BeginsWith(s, p) == Len(s) >= Len(p) /\ SubSeq(s, 1, Len(p)) = p
Has(s, p) ==
    \E i \in 1..(Len(s) - Len(p) + 1) : SubSeq(s, i, i + Len(p) - 1) = p
FirstAt(s, p) ==
    IF Has(s, p)
    THEN CHOOSE i \in 1..(Len(s) - Len(p) + 1) :
            /\ SubSeq(s, i, i + Len(p) - 1) = p
            /\ \A j \in 1..(i - 1) : SubSeq(s, j, j + Len(p) - 1) # p
    ELSE 0
NoRepeat(l) == \A i, j \in 1..Len(l) : i # j => l[i] # l[j]

\* The compile-time triple around its last hyphen: P before it, the ABI
\* suffix after it, and the qualifier Q left of the suffix without its
\* leading libc marker.
LastHyphen(t) ==
    CHOOSE i \in 1..Len(t) :
        /\ SubSeq(t, i, i) = "-"
        /\ \A j \in (i + 1)..Len(t) : SubSeq(t, j, j) # "-"
TriplePrefix(t) == SubSeq(t, 1, LastHyphen(t) - 1)
AbiSuffix(t) == SubSeq(t, LastHyphen(t) + 1, Len(t))
KnownLibc(t) == BeginsWith(AbiSuffix(t), "musl") \/ BeginsWith(AbiSuffix(t), "gnu")
Qualifier(t) ==
    IF BeginsWith(AbiSuffix(t), "musl")
    THEN SubSeq(AbiSuffix(t), 5, Len(AbiSuffix(t)))
    ELSE SubSeq(AbiSuffix(t), 4, Len(AbiSuffix(t)))
GnuTriple(t) == TriplePrefix(t) \o "-gnu" \o Qualifier(t)
MuslTriple(t) == TriplePrefix(t) \o "-musl" \o Qualifier(t)

\* The lines of a buffer, each named by the position of its first byte.
LineStarts(buf) ==
    { a \in 1..Len(buf) : a = 1 \/ SubSeq(buf, a - 1, a - 1) = "\n" }
LineStop(buf, a) ==
    CHOOSE e \in a..(Len(buf) + 1) :
        /\ e = Len(buf) + 1 \/ SubSeq(buf, e, e) = "\n"
        /\ \A j \in a..(e - 1) : SubSeq(buf, j, j) # "\n"
\* The text of the line, without its LF or CRLF.
LineText(buf, a) ==
    LET e == LineStop(buf, a)
        crlf == e <= Len(buf) /\ e > a /\ SubSeq(buf, e - 1, e - 1) = "\r"
    IN SubSeq(buf, a, IF crlf THEN e - 2 ELSE e - 1)
HostLines(buf) == { a \in LineStarts(buf) : BeginsWith(LineText(buf, a), "host: ") }
ValidHostLines(buf) == { a \in HostLines(buf) : ~Has(LineText(buf, a), XFF) }
Remainder(buf, a) == SubSeq(LineText(buf, a), 7, Len(LineText(buf, a)))
Lowest(S) == CHOOSE a \in S : \A b \in S : a <= b

\* The libc family a buffer stands for when musl takes precedence.
Family(buf) ==
    IF Has(buf, "musl libc") THEN Some("musl")
    ELSE IF Has(buf, "GLIBC") THEN Some("gnu")
    ELSE None
\* The libc family of the marker that comes first in the buffer.
FirstFamily(buf) ==
    LET m == FirstAt(buf, "musl libc")
        g == FirstAt(buf, "GLIBC")
    IN IF m = 0 /\ g = 0 THEN None
       ELSE IF g = 0 \/ (m # 0 /\ m < g) THEN Some("musl")
       ELSE Some("gnu")

\* glibc is detected: by stdout, or by stderr when stdout has no marker.
GlibcDetected ==
    /\ LddExited
    /\ \/ stdout_libc = Some("gnu")
       \/ stdout_libc = None /\ stderr_libc = Some("gnu")

\* The list of the Linux heuristic as a function of the two buffers alone.
LinuxListOf(out, err) ==
    IF Family(out) = Some("gnu") \/ (Family(out) = None /\ Family(err) = Some("gnu"))
    THEN <<GnuTriple(TARGET), MuslTriple(TARGET)>>
    ELSE <<MuslTriple(TARGET)>>

\* The list when the probe gives nothing, from what the host offers besides
\* rustc.
Fallback ==
    IF host_os = "linux"
    THEN IF LddExited THEN LinuxListOf(ldd_out.stdout, ldd_out.stderr)
         ELSE <<MuslTriple(TARGET)>>
    ELSE IF host_os = "macos"
    THEN IF guess = Some("aarch64-apple-darwin")
         THEN <<"aarch64-apple-darwin", "x86_64-apple-darwin">>
         ELSE <<"x86_64-apple-darwin">>
    ELSE <<TARGET>>

-----------------------------------------------------------------------------
(* Properties *)

\* C1: whatever the host OS, the outcome of the probe, of ldd and of the OS
\* guess and the compile-time triple, a list that detect_targets returns is
\* non-empty and has no duplicate entries.
C1_NonEmptyNoDuplicates ==
    pc = "returned" =>
        /\ ret.some
        /\ Len(ret.val) >= 1
        /\ NoRepeat(ret.val)

\* A returned list of two candidates made by the Linux heuristic.
C1_Witness ==
    /\ Returned
    /\ Len(ret.val) = 2
    /\ probe = None
    /\ host_os = "linux"

\* C2 as claimed: for every combination of inputs the call neither halts nor
\* fails; once rustc is over it either awaits ldd or has returned a list.
C2_NeverFails ==
    /\ pc # "panicked"
    /\ (RustcOver /\ pc # "await_ldd") => Returned

\* C2 amended: once rustc is over the call either awaits ldd or has ended,
\* and it ends by returning a list, a single safe default when nothing
\* richer is known, except that it halts (panics) when the probe gives
\* nothing on a Linux build whose compile-time ABI suffix begins with
\* neither "musl" nor "gnu"; it halts in no other case.
C2_NeverFailsButUnknownLibc ==
    /\ pc = "panicked" =>
        /\ host_os = "linux"
        /\ probe = None
        /\ ~KnownLibc(TARGET)
        /\ ret = None
    /\ (RustcOver /\ pc \notin {"await_ldd", "panicked"}) => Returned
    /\ pc = "returned" =>
        /\ ret.some
        /\ (probe = None /\ host_os = "other") => ret.val = <<TARGET>>
        /\ (probe = None /\ host_os = "macos" /\ guess = None)
              => ret.val = <<"x86_64-apple-darwin">>
        /\ (probe = None /\ host_os = "linux" /\ ldd_out = LaunchFailed)
              => ret.val = <<MuslTriple(TARGET)>>

\* The safe default after both rustc and ldd could not be started.
C2_Witness ==
    /\ Returned
    /\ rustc_out = LaunchFailed
    /\ ldd_out = LaunchFailed
    /\ Len(ret.val) = 1

\* C3: when the probe yields T the list starts with T and is, on Linux,
\* [T, T with "gnu" replaced by "musl"] if T contains "gnu" and [T]
\* otherwise; on macOS, [aarch64-apple-darwin, x86_64-apple-darwin] if T is
\* aarch64-apple-darwin and [T] otherwise; elsewhere [T].
C3_ProbedList ==
    (pc = "returned" /\ probe # Pending /\ probe.some) =>
        LET T == probe.val IN
        /\ ret.some
        /\ ret.val[1] = T
        /\ host_os = "linux" =>
              ret.val = IF Has(T, "gnu")
                        THEN <<T, replace(T, "gnu", "musl")>>
                        ELSE <<T>>
        /\ (host_os = "linux" /\ T = "x86_64-unknown-linux-gnu") =>
              ret.val = <<"x86_64-unknown-linux-gnu", "x86_64-unknown-linux-musl">>
        /\ (host_os = "linux" /\ T = "armv7-unknown-linux-gnueabihf") =>
              ret.val = <<"armv7-unknown-linux-gnueabihf",
                          "armv7-unknown-linux-musleabihf">>
        /\ host_os = "macos" =>
              ret.val = IF T = "aarch64-apple-darwin"
                        THEN <<"aarch64-apple-darwin", "x86_64-apple-darwin">>
                        ELSE <<T>>
        /\ host_os = "other" => ret.val = <<T>>

\* A probed glibc triple on Linux whose marker is not at its end.
C3_Witness ==
    /\ Returned
    /\ probe # Pending /\ probe.some
    /\ host_os = "linux"
    /\ probe.val = "armv7-unknown-linux-gnueabihf"
    /\ Len(ret.val) = 2

\* C4: with no probe on Linux and a compile-time ABI suffix that begins
\* with "gnu" or "musl", the list is [P-gnuQ, P-muslQ] if glibc is detected
\* (by stdout, or by stderr when stdout has no marker) and [P-muslQ] in every
\* other case: musl detected, no marker, ldd not launched.
C4_LinuxList ==
    (pc = "returned" /\ host_os = "linux" /\ probe = None /\ KnownLibc(TARGET)) =>
        /\ ret.some
        /\ ret.val = IF GlibcDetected
                     THEN <<GnuTriple(TARGET), MuslTriple(TARGET)>>
                     ELSE <<MuslTriple(TARGET)>>
        /\ (GlibcDetected /\ TARGET = "armv7-unknown-linux-gnueabihf") =>
              ret.val = <<"armv7-unknown-linux-gnueabihf",
                          "armv7-unknown-linux-musleabihf">>
        /\ (~GlibcDetected /\ TARGET = "x86_64-unknown-linux-gnu") =>
              ret.val = <<"x86_64-unknown-linux-musl">>

\* glibc detected by stderr after a stdout without marker, the qualifier
\* "eabihf" kept.
C4_Witness ==
    /\ Returned
    /\ host_os = "linux" /\ probe = None
    /\ TARGET = "armv7-unknown-linux-gnueabihf"
    /\ stdout_libc = None /\ stderr_libc = Some("gnu")
    /\ Len(ret.val) = 2

\* C5 as claimed: the probe yields nothing if rustc cannot be started, exits
\* with a non-success status or prints no line beginning with "host: ";
\* otherwise it yields the remainder of the first stdout line that begins
\* with "host: ".
C5_FirstHostLine ==
    RustcOver =>
        probe = IF RustcUnavailable \/ HostLines(rustc_out.stdout) = {}
                THEN None
                ELSE Some(Remainder(rustc_out.stdout,
                                    Lowest(HostLines(rustc_out.stdout))))

\* C5 amended: the same, with the lines of stdout that are not valid UTF-8
\* skipped: nothing if no valid line begins with "host: ", otherwise the
\* remainder of the first valid line that does.
C5_FirstValidHostLine ==
    RustcOver =>
        probe = IF RustcUnavailable \/ ValidHostLines(rustc_out.stdout) = {}
                THEN None
                ELSE Some(Remainder(rustc_out.stdout,
                                    Lowest(ValidHostLines(rustc_out.stdout))))

\* Two lines beginning with "host: " that name different triples; the first
\* one is the result.
C5_Witness ==
    /\ RustcOver
    /\ probe.some
    /\ Cardinality(ValidHostLines(rustc_out.stdout)) = 2
    /\ \E a \in ValidHostLines(rustc_out.stdout) :
          Remainder(rustc_out.stdout, a) # probe.val

\* C6: at most two external processes are invoked, one after the other:
\* rustc first, ldd at most once and only after the probe has completed
\* with no result; no process is invoked twice.
C6_TwoSequentialProcesses ==
    /\ Len(spawned) <= 2
    /\ Cardinality(running) <= 1
    /\ spawned # <<>> => spawned[1] = "rustc"
    /\ Len(spawned) = 2 =>
        /\ spawned[2] = "ldd"
        /\ RustcOver
        /\ probe = None
        /\ "rustc" \notin running
    /\ (probe # Pending /\ probe.some) => spawned = <<"rustc">>
    /\ pc = "start" => spawned = <<>>

\* ldd is awaited after a probe without result.
C6_Witness ==
    /\ pc = "await_ldd"
    /\ spawned = <<"rustc", "ldd">>
    /\ running = {"ldd"}

\* C7 as claimed: for rustc and for ldd alike, the list after a non-success
\* exit is the list after a failure to launch, whatever the process wrote.
C7_NonSuccessIsLaunchFailure ==
    pc = "returned" =>
        /\ RustcUnavailable => (probe = None /\ ret.val = Fallback)
        /\ (LddExited /\ ~ldd_out.success) => ret.val = <<MuslTriple(TARGET)>>

\* C7 amended: for rustc, the list after a non-success exit is the list
\* after a failure to launch, whatever rustc wrote.  The exit status of ldd
\* is ignored: once ldd was launched the list depends on its stdout and
\* stderr alone.
C7_RustcStatusOnly ==
    pc = "returned" =>
        /\ RustcUnavailable => (probe = None /\ ret.val = Fallback)
        /\ LddExited => ret.val = LinuxListOf(ldd_out.stdout, ldd_out.stderr)

\* ldd exits without success and glibc is detected all the same.
C7_Witness ==
    /\ Returned
    /\ rustc_out.state = "exited" /\ ~rustc_out.success
    /\ HostLines(rustc_out.stdout) # {}
    /\ LddExited /\ ~ldd_out.success
    /\ Len(ret.val) = 2

\* C8: when the Linux heuristic runs with a compile-time triple whose ABI
\* suffix contains neither "musl" nor "gnu", the call halts with a panic and
\* returns no list; ldd is not even invoked.
C8_UnknownLibcPanics ==
    ( /\ host_os = "linux"
      /\ RustcOver
      /\ probe = None
      /\ ~Has(AbiSuffix(TARGET), "musl")
      /\ ~Has(AbiSuffix(TARGET), "gnu") ) =>
        /\ pc = "panicked"
        /\ ret = None
        /\ spawned = <<"rustc">>

\* The panic on a uclibc build.
C8_Witness ==
    /\ pc = "panicked"
    /\ TARGET = "armv7-unknown-linux-uclibceabihf"
    /\ probe = None

\* C9: with no probe on macOS the list is [aarch64-apple-darwin,
\* x86_64-apple-darwin] if the OS guess is the aarch64 constant and
\* [x86_64-apple-darwin] for any other guess, no guess included.
C9_MacosList ==
    (pc = "returned" /\ host_os = "macos" /\ probe = None) =>
        /\ guess # Pending
        /\ ret.some
        /\ ret.val = IF guess = Some("aarch64-apple-darwin")
                     THEN <<"aarch64-apple-darwin", "x86_64-apple-darwin">>
                     ELSE <<"x86_64-apple-darwin">>

\* An x86_64 build that runs on a host guessed to be aarch64.
C9_Witness ==
    /\ Returned
    /\ host_os = "macos" /\ probe = None
    /\ TARGET = "x86_64-apple-darwin"
    /\ guess = Some("aarch64-apple-darwin")
    /\ Len(ret.val) = 2

\* C10 as claimed: the parser reports the family of the marker that comes
\* first in the buffer, nothing if there is no marker.
C10_FirstMarker ==
    LddExited =>
        /\ stdout_libc = FirstFamily(ldd_out.stdout)
        /\ stderr_libc # Pending => stderr_libc = FirstFamily(ldd_out.stderr)

\* C10 amended: the parser reports musl if the buffer contains "musl libc"
\* anywhere, else gnu if it contains "GLIBC", else nothing; for a buffer
\* with both markers it reports musl wherever they stand.
C10_MuslBeforeGlibc ==
    LddExited =>
        /\ stdout_libc = Family(ldd_out.stdout)
        /\ stderr_libc # Pending => stderr_libc = Family(ldd_out.stderr)

\* A buffer in which "GLIBC" comes before "musl libc" is parsed as musl.
C10_Witness ==
    /\ LddExited
    /\ Has(ldd_out.stdout, "GLIBC") /\ Has(ldd_out.stdout, "musl libc")
    /\ FirstAt(ldd_out.stdout, "GLIBC") < FirstAt(ldd_out.stdout, "musl libc")
    /\ stdout_libc = Some("musl")

====
